---- MODULE Spec2Model ----
(***************************************************************************)
(* photoz: a walk over a tree of backed-up photos that classifies each     *)
(* file by its leading bytes, fingerprints it, and keeps one record per    *)
(* fingerprint in a persistent store, copying first-seen files to a flat   *)
(* output directory.                                                       *)
(*                                                                         *)
(* Strings that the code inspects character by character (paths, file      *)
(* extensions) are sequences of one-character strings; file contents are   *)
(* sequences of bytes (0..255).  A derived output name a_b_c is the tuple  *)
(* of its parts <<a, b, c>>, the empty string is <<>>.                     *)
(***************************************************************************)
EXTENDS Integers, Sequences, FiniteSets, TLC

\* ------------------------------------------------------------------ bounds
\* Files the walk callback handles, over all runs of the program.
MaxFiles == 2
\* Runs of the program (processes) over the same store file and output dir.
MaxRuns == 2

\* ------------------------------------------------------- string primitives
Upper == <<"A","B","C","D","E","F","G","H","I","J","K","L","M",
           "N","O","P","Q","R","S","T","U","V","W","X","Y","Z">>
Lower == <<"a","b","c","d","e","f","g","h","i","j","k","l","m",
           "n","o","p","q","r","s","t","u","v","w","x","y","z">>

LowerOf ==
    [c \in { Upper[i] : i \in 1..Len(Upper) } |->
        Lower[CHOOSE i \in 1..Len(Upper) : Upper[i] = c]]

\* One character folded to lower case (ASCII letters; others unchanged).
ToLower(c) == IF c \in DOMAIN LowerOf THEN LowerOf[c] ELSE c

\* strings.EqualFold: equality under case folding.
EqualFold(s, t) ==
    /\ Len(s) = Len(t)
    /\ \A i \in 1..Len(s) : ToLower(s[i]) = ToLower(t[i])

\* strings.HasPrefix / bytes.HasPrefix.
HasPrefix(s, p) ==
    /\ Len(p) <= Len(s)
    /\ \A i \in 1..Len(p) : s[i] = p[i]

\* Index of the last occurrence of c in s, 0 when there is none.
LastIndex(s, c) ==
    IF \E i \in 1..Len(s) : s[i] = c
    THEN CHOOSE i \in 1..Len(s) : s[i] = c /\ \A j \in (i+1)..Len(s) : s[j] # c
    ELSE 0

\* filepath.Base for a non-empty path without a trailing separator.
Base(path) == SubSeq(path, LastIndex(path, "/") + 1, Len(path))

\* The suffix of s from index i, nothing for index 0.
SuffixFrom(s, i) == IF i = 0 THEN <<>> ELSE SubSeq(s, i, Len(s))

\* The suffix of a file name from its last dot.
ExtOfName(name) == SuffixFrom(name, LastIndex(name, "."))

\* filepath.Ext: the suffix from the last dot of the last path element.
Ext(path) == ExtOfName(Base(path))

\* ------------------------------------------------------------- NameFilter
skipExtensions ==
    { <<".","h","t","m","l">>,
      <<".","h","t","m">>,
      <<".","d","o","c">>,
      <<".","d","b">>,
      <<".","j","b","f">>,
      <<".","d","o","t">>,
      <<".","t","x","t">>,
      <<".","c","l","a","s","s">>,
      <<".","p","d","d">>,
      <<".","x","l","s">>,
      <<".","e","m","l">>,
      <<".","w","a","b">>,
      <<".","p","t","n">>,
      <<".","d","m","f">>,
      <<".","l","o","g">>,
      <<".","d","s","_","s","t","o","r","e">>,
      <<".","p","s">>,
      <<".","m","p","3">>,
      <<".","s","v","n","-","b","a","s","e">>,
      <<".","g","z">>,
      <<".","j","a","v","a">>,
      <<".","x","m","l">>,
      <<".","j","a","r">>,
      <<".","t","e","s","t">>,
      <<".","c","s","s">>,
      <<".","e","x","e">>,
      <<".","d","e","b">>,
      <<".","z","i","p">>,
      <<".","l","i","s","j">>,
      <<".","l","i","j">>,
      <<".","p","l","i","s","t">>,
      <<".","b","a","k">>,
      <<".","w","a","v">>,
      <<".","x","m","p">>,
      <<".","r","t","f">>,
      <<".","j","s","o","n">>,
      <<"m","j","p","g">> }

\* FileSystem.IgnoreByName: Apple metadata files "._*".
IgnoreByName(filePath) == HasPrefix(Base(filePath), <<".", "_">>)

\* A plausible slip: the extension is looked up in the set as it is spelled.
IgnoreByExtensionCaseSensitive(filePath) ==
    LET suffix == Ext(filePath)
    IN  \E ext \in skipExtensions : suffix = ext

\* FileSystem.IgnoreByExtension: the extension folds to a member of the set.
IgnoreByExtension(filePath) ==
    LET suffix == Ext(filePath)
    IN  \E ext \in skipExtensions : EqualFold(suffix, ext)

\* ---------------------------------------------------- SignatureClassifier
imageSignatures ==
    { [magic |-> <<102,116,121,112,105,115,111,109>>, mime |-> "video/mp4"],
      [magic |-> <<102,116,121,112,77,83,78,86>>, mime |-> "video/mp4"],
      [magic |-> <<255,216,255>>, mime |-> "image/jpeg"],
      [magic |-> <<71,73,70,56,55,97>>, mime |-> "image/gif"],
      [magic |-> <<71,73,70,56,57,97>>, mime |-> "image/gif"],
      [magic |-> <<66,77>>, mime |-> "image/bmp"],
      [magic |-> <<73,73,42,0>>, mime |-> "image/tiff"],
      [magic |-> <<77,77,0,42>>, mime |-> "image/tiff"],
      [magic |-> <<82,73,70,70,46,46,46,46,87,69,66,80>>, mime |-> "image/webp"],
      [magic |-> <<82,73,70,70>>, mime |-> "video/x-msvideo"],
      [magic |-> <<123,92,114,116,102,49>>, mime |-> "application/rtf"],
      [magic |-> <<73,68,51>>, mime |-> "audio/mpeg"],
      [magic |-> <<0,0,0,40,102,116,121,112,104,101,105,99>>, mime |-> "image/heic"],
      [magic |-> <<137,80,78,71,13,10,26,10>>, mime |-> "image/png"] }

\* Size of the probe buffer IsImage reads into.
ProbeLen == 32

\* buffer := make([]byte, 32); io.ReadFull: the first 32 bytes of the file,
\* the rest of the buffer left zero when the file is shorter.
ReadProbe(bytes) ==
    [i \in 1..ProbeLen |-> IF i <= Len(bytes) THEN bytes[i] ELSE 0]

dotNEF == <<".", "N", "E", "F">>
dotHEIC == <<".", "H", "E", "I", "C">>

\* A plausible slip: the tiebreak compares the extension as it is spelled.
MimeForExactCase(sig, filePath) ==
    IF sig.mime = "image/png" /\ Ext(filePath) = dotNEF
    THEN "image/nef"
    ELSE sig.mime

\* The MIME type returned for a signature that matched: the PNG/NEF hack.
MimeFor(sig, filePath) ==
    IF sig.mime = "image/png" /\ EqualFold(Ext(filePath), dotNEF)
    THEN "image/nef"
    ELSE sig.mime

\* FileSystem.IsImage on a file that opens and reads: the results the loop
\* over the signature map can return.  Go iterates a map in an unspecified
\* order and the loop returns at the first signature that matches, so every
\* matching signature is a possible result.
IsImage(bytes, filePath) ==
    LET buffer  == ReadProbe(bytes)
        matches == { s \in imageSignatures : HasPrefix(buffer, s.magic) }
    IN  IF matches = {}
        THEN { [isImg |-> FALSE, mime |-> ""] }
        ELSE { [isImg |-> TRUE, mime |-> MimeFor(s, filePath)] : s \in matches }

\* ------------------------------------------------------------ file contents
\* The leading bytes a file can have, by number.
FileBytes ==
    << <<255,216,255,224,0,16>>,                      \* 1 JPEG
       <<137,80,78,71,13,10,26,10,0,0>>,              \* 2 PNG signature
       <<77,77,0,42,0,0,0,8>>,                        \* 3 TIFF, big-endian
       <<0,0,0,40,102,116,121,112,104,101,105,99>>,   \* 4 HEIC
       <<104,101,108,108,111>>,                       \* 5 "hello"
       <<71,73,70,56,57,97,1>>,                       \* 6 GIF89a
       <<82,73,70,70,46,46,46,46,87,69,66,80,0>>,     \* 7 "RIFF....WEBP"
       <<82,73,70,70,36,0,0,0,65,86,73,32>>,          \* 8 RIFF, AVI
       <<73,73,42>>,                                  \* 9 "II*", three bytes
       << >> >>                                       \* 10 the empty file

\* FileSystem.CalculateMD5 on a file that opens and reads: the lower-case
\* hex digest of the whole content.  A content is its leading bytes and
\* its metadata block; the digest is named by them, not computed: different
\* contents have different digests (no MD5 collision).
CalculateMD5(bytes, exif) == <<"md5", bytes, exif>>

\* ---------------------------------------------------------- ImageFileInfo
\* NewImageFileInfo: the zero value with the three given fields.
NewImageFileInfo(filePath, mimeType, md5) ==
    [ FilePath         |-> filePath,
      MimeType         |-> mimeType,
      MD5              |-> md5,
      FileName         |-> <<>>,
      OriginalDateTime |-> "",
      Duplicates       |-> 0,
      HasExif          |-> FALSE ]

\* A tag value is a string, held as the sequence of its pieces: a piece of
\* text or one null byte.
NUL == "\\x00"
ZeroTime == "0000:00:00 00:00:00"
GoodTime == "2021:03:04 05:06:07"
JunkTime == "yesterday"

\* strings.Replace(s, "\x00", "", 1): the first null byte removed.
StripFirstNul(v) ==
    IF \E i \in 1..Len(v) : v[i] = NUL
    THEN LET i == CHOOSE k \in 1..Len(v) : v[k] = NUL /\ \A j \in 1..(k-1) : v[j] # NUL
         IN  SubSeq(v, 1, i-1) \o SubSeq(v, i+1, Len(v))
    ELSE v

\* time.Parse("2006:01:02 15:04:05", s) and fmt.Sprintf("%d", date.Unix()):
\* "" when the string does not parse (month and day 0 are out of range).
UnixTime(v) ==
    IF v = <<GoodTime>> THEN "1614834367" ELSE ""

\* The loop over the tags: [err, time], err set at the first capture-time
\* tag that holds the all-zero date, time the last capture-time value seen.
RECURSIVE ScanTags(_, _, _)
ScanTags(tags, i, originalTime) ==
    IF i > Len(tags) THEN [err |-> FALSE, time |-> originalTime]
    ELSE IF tags[i].TagName \in {"DateTimeOriginal", "Create Date"}
         THEN LET exifTime == StripFirstNul(tags[i].Value)
              IN  IF exifTime = <<ZeroTime>>
                  THEN [err |-> TRUE, time |-> originalTime]
                  ELSE ScanTags(tags, i + 1, exifTime)
         ELSE ScanTags(tags, i + 1, originalTime)

\* The end of GetJpegCreatedAt, after the loop: no capture time, one that
\* does not parse, or the time stored as Unix seconds.
Stamped(x, unix) ==
    IF unix = "" THEN [err |-> TRUE, fi |-> x]
    ELSE [err |-> FALSE, fi |-> [x EXCEPT !.OriginalDateTime = unix]]
\* A plausible slip: the loop's error is dropped and the last capture time
\* seen is used.
CreatedAtUnchecked(x, scan) ==
    IF scan.time = <<>> THEN [err |-> TRUE, fi |-> x]
    ELSE Stamped(x, UnixTime(scan.time))
CreatedAt(x, scan) ==
    IF scan.err \/ scan.time = <<>> THEN [err |-> TRUE, fi |-> x]
    ELSE Stamped(x, UnixTime(scan.time))

\* ImageFileInfo.GetJpegCreatedAt.  exif is what the decoder yields for the
\* file: decode "missing" (SearchFileAndExtractExif fails), "corrupt"
\* (GetFlatExifData fails) or "ok" with the tags.  Result: the error flag
\* and the receiver afterwards.
GetJpegCreatedAt(x, exif) ==
    IF exif.decode # "ok" THEN [err |-> TRUE, fi |-> x]
    ELSE CreatedAt(x, ScanTags(exif.tags, 1, <<>>))

\* The token SetFileName puts in place of a missing capture time.
FallbackToken == "0000000000"

\* ImageFileInfo.SetFileName: time_md5_base, the token for an empty time.
SetFileName(x) ==
    [x EXCEPT !.FileName =
        << IF x.OriginalDateTime # "" THEN x.OriginalDateTime ELSE FallbackToken,
           x.MD5, Base(x.FilePath) >>]

\* ImageFileInfo.IsJPEG.
IsJPEG(x) == x.MimeType = "image/jpeg"

\* ImageFileInfo.IsNEF: [is, fi]; a true answer also rewrites the MIME type.
IsNEF(x) ==
    LET isNEF == EqualFold(Ext(x.FilePath), dotNEF)
    IN  [is |-> isNEF, fi |-> IF isNEF THEN [x EXCEPT !.MimeType = "image/nef"] ELSE x]

\* ImageFileInfo.IsHEIC: [is, fi]; a true answer also rewrites the MIME type.
IsHEIC(x) ==
    LET isHEIC == EqualFold(Ext(x.FilePath), dotHEIC)
    IN  [is |-> isHEIC, fi |-> IF isHEIC THEN [x EXCEPT !.MimeType = "image/heic"] ELSE x]

\* fi.IsJPEG() || fi.IsNEF() || fi.IsHEIC(), left to right with short
\* circuit: [is, fi].
NefOrHeic(n) == IF n.is THEN n ELSE IsHEIC(n.fi)
HasTimestamps(x) ==
    IF IsJPEG(x) THEN [is |-> TRUE, fi |-> x] ELSE NefOrHeic(IsNEF(x))

\* ------------------------------------------------------ DeduplicationStore
\* A byte that is not valid UTF-8, and the rune json.Marshal puts for it.
BadByte == "\\xff"
ReplacementChar == "\\ufffd"

\* encoding/json string coercion: invalid bytes become U+FFFD.
ToValidUTF8(s) ==
    [i \in 1..Len(s) |-> IF s[i] = BadByte THEN ReplacementChar ELSE s[i]]

\* The file name's parts, each coerced (the first two are ASCII).
FileNameJSON(name) ==
    [i \in 1..Len(name) |-> IF i = Len(name) THEN ToValidUTF8(name[i]) ELSE name[i]]

\* FastCache.toJSON: the JSON object json.Marshal writes for a record.
toJSON(fi) ==
    [ filepath         |-> ToValidUTF8(fi.FilePath),
      mimetype         |-> fi.MimeType,
      md5              |-> fi.MD5,
      filename         |-> FileNameJSON(fi.FileName),
      originaldatetime |-> fi.OriginalDateTime,
      duplicates       |-> fi.Duplicates,
      hasexif          |-> fi.HasExif ]

\* FastCache.fromJSON: json.Unmarshal into a record.
fromJSON(js) ==
    [ FilePath         |-> js.filepath,
      MimeType         |-> js.mimetype,
      MD5              |-> js.md5,
      FileName         |-> js.filename,
      OriginalDateTime |-> js.originaldatetime,
      Duplicates       |-> js.duplicates,
      HasExif          |-> js.hasexif ]

\* The duration the pipeline passes to Set (cache.NoExpiration).
NoExpiration == -1

\* FastCache.Get: [found, fi].
Get(items, key) ==
    IF key \in DOMAIN items
    THEN [found |-> TRUE, fi |-> fromJSON(items[key].Object)]
    ELSE [found |-> FALSE, fi |-> NewImageFileInfo(<<>>, "", <<>>)]

\* cache.New(24*time.Hour, 60*time.Minute): the default expiration, in hours.
DefaultExpiration == 24

\* A plausible slip: the item is put with the cache's default expiration
\* (cache.SetDefault), whatever duration was asked for.
SetDefault(items, key, fi, duration) ==
    [k \in DOMAIN items \cup {key} |->
        IF k = key
        THEN [Object |-> toJSON(fi), Expiration |-> DefaultExpiration]
        ELSE items[k]]

\* FastCache.Set: the item is put or replaced.  Duration 0 asks for the
\* default expiration, a positive one for that time from now, a negative
\* one (cache.NoExpiration) leaves the item without an expiration time (0).
Set(items, key, fi, duration) ==
    [k \in DOMAIN items \cup {key} |->
        IF k = key
        THEN [Object |-> toJSON(fi),
              Expiration |-> IF duration = 0 THEN DefaultExpiration
                             ELSE IF duration > 0 THEN duration ELSE 0]
        ELSE items[k]]

\* The janitor's DeleteExpired once every expiration time set has passed:
\* the items without an expiration time are the ones left.
DeleteExpired(items) ==
    [k \in { x \in DOMAIN items : items[x].Expiration = 0 } |-> items[k]]

\* Duplicates is an int32: the increment wraps.
Int32Max == 2147483647
IncrInt32(n) == IF n = Int32Max THEN -Int32Max - 1 ELSE n + 1

EmptyItems == [k \in {} |-> 0]

\* gob encoding of the item map (cache.Save): one entry per key.
Encode(items) ==
    { <<k, items[k].Object, items[k].Expiration>> : k \in DOMAIN items }

\* A plausible slip: an entry is taken as expired when its expiration time
\* is not in the future, the 0 of "never expires" included.
LoadExpired(items, data) ==
    LET keys == { e[1] : e \in { d \in data : d[3] > 0 } }
        item(k) == LET e == CHOOSE e \in data : e[1] = k
                   IN  [Object |-> e[2], Expiration |-> e[3]]
    IN  [k \in DOMAIN items \cup keys |->
            IF k \in DOMAIN items THEN items[k] ELSE item(k)]

\* cache.Load: every decoded entry whose key the cache does not hold is put.
Load(items, data) ==
    LET keys == { e[1] : e \in data }
        item(k) == LET e == CHOOSE e \in data : e[1] = k
                   IN  [Object |-> e[2], Expiration |-> e[3]]
    IN  [k \in DOMAIN items \cup keys |->
            IF k \in DOMAIN items THEN items[k] ELSE item(k)]

\* The store file on disk: absent, not decodable, or a gob of entries.
MissingFile == [kind |-> "missing", data |-> {}]
CorruptFile == [kind |-> "corrupt", data |-> {}]

\* NewPersistentCache: a fresh cache and LoadFile's outcome on the file.
NewPersistentCache(f) ==
    IF f.kind = "gob"
    THEN [err |-> "", items |-> Load(EmptyItems, f.data)]
    ELSE [err |-> IF f.kind = "missing" THEN "IsNotExist" ELSE "decode",
          items |-> EmptyItems]

\* FastCache.Persist (cache.SaveFile): the file afterwards.  outcome "ok",
\* "create" (os.Create fails, the file is left as it was) or "write"
\* (the encoder fails after the file was truncated).
Persist(items, f, outcome) ==
    CASE outcome = "ok"     -> [kind |-> "gob", data |-> Encode(items)]
      [] outcome = "create" -> f
      [] outcome = "write"  -> CorruptFile

\* ------------------------------------------------------------- the walk
\* FileSystem.CopyFile: the output directory afterwards and the error flag.
\* outcome "ok"; "open" (source or destination cannot be opened, nothing is
\* written); "copy" (io.Copy fails, a truncated file is left); "chmod"
\* (the file is whole, Chmod fails).
CopyFile(dir, md5, outFile, outcome) ==
    LET put(whole) == [n \in DOMAIN dir \cup {outFile} |->
                          IF n = outFile
                          THEN [md5 |-> md5, whole |-> whole]
                          ELSE dir[n]]
    IN  CASE outcome = "ok"    -> [dir |-> put(TRUE),  err |-> FALSE]
          [] outcome = "open"  -> [dir |-> dir,        err |-> TRUE]
          [] outcome = "copy"  -> [dir |-> put(FALSE), err |-> TRUE]
          [] outcome = "chmod" -> [dir |-> put(TRUE),  err |-> TRUE]
CopyOutcomes == {"ok", "open", "copy", "chmod"}

\* The miss path of the walk callback of common/fastcache.go's main, up to
\* the record to store: [fi, outFile, fatal, exif].  h is the answer of the
\* type test, g the outcome of GetJpegCreatedAt.
NewNamed(h, fi) ==
    [fi |-> fi, outFile |-> fi.FileName, fatal |-> FALSE, exif |-> h.is]
NewStamped(h, g) ==
    NewNamed(h, SetFileName(IF h.is THEN [g.fi EXCEPT !.HasExif = ~g.err] ELSE h.fi))
NewTyped(h, exif) == NewStamped(h, GetJpegCreatedAt(h.fi, exif))
OriginalNew(filePath, mimeType, md5, exif) ==
    NewTyped(HasTimestamps(NewImageFileInfo(filePath, mimeType, md5)), exif)

\* The miss path of the walk callback of main.go's main: the name is set
\* only when a capture time was read, "NEF with no EXIF data" is fatal, and
\* the fallback output name is md5_base.
OldNamed(named) ==
    [fi |-> named, outFile |-> named.FileName, fatal |-> FALSE, exif |-> TRUE]
OldFailed(n, plain) ==
    [fi |-> n.fi, outFile |-> plain, fatal |-> n.is, exif |-> TRUE]
OldStamped(h, g, plain) ==
    IF ~h.is
    THEN [fi |-> h.fi, outFile |-> plain, fatal |-> FALSE, exif |-> FALSE]
    ELSE IF ~g.err
    THEN OldNamed([SetFileName(g.fi) EXCEPT !.HasExif = TRUE])
    ELSE OldFailed(IsNEF(g.fi), plain)
OldTyped(h, exif, plain) == OldStamped(h, GetJpegCreatedAt(h.fi, exif), plain)
OriginalOld(filePath, mimeType, md5, exif) ==
    OldTyped(HasTimestamps(NewImageFileInfo(filePath, mimeType, md5)), exif,
             <<md5, Base(filePath)>>)

\* The two entry points of the repository.
Entries == {"common/fastcache.go", "main.go"}
Original(entry, filePath, mimeType, md5, exif) ==
    IF entry = "main.go"
    THEN OriginalOld(filePath, mimeType, md5, exif)
    ELSE OriginalNew(filePath, mimeType, md5, exif)

\* ------------------------------------------------------------ the inputs
PathA    == <<"d","/","a",".","j","p","g">>
PathB    == <<"d","/","b",".","j","p","g">>
PathNEF  == <<"d","/","c",".","N","E","F">>
PathNef  == <<"d","/","e",".","n","e","f">>
PathNeF  == <<"d","/","m",".","N","e","F">>
PathTif  == <<"d","/","t",".","t","i","f">>
PathPng  == <<"d","/","p",".","p","n","g">>
PathHEIC == <<"d","/","h",".","H","E","I","C">>
PathHeic == <<"d","/","i",".","h","e","i","c">>
PathMeta == <<"d","/",".","_","a",".","j","p","g">>
PathXML  == <<"d","/","x",".","X","M","L">>
PathXml  == <<"d","/","y",".","x","m","l">>
PathTxt  == <<"d",".","x","/","n">>
PathBad  == <<"d","/","\\xff",".","j","p","g">>
Paths == { PathA, PathB, PathNEF, PathNef, PathNeF, PathTif, PathPng, PathHEIC,
           PathHeic, PathMeta, PathXML, PathXml, PathTxt, PathBad }

\* The paths the two name filters are to pass over: a base name that begins
\* with "._", or an extension that is in the skip set in some letter case.
FilteredPaths ==
    { p \in Paths :
        \/ HasPrefix(Base(p), <<".", "_">>)
        \/ \E e \in skipExtensions : EqualFold(Ext(p), e) }

Tag(name, value) == [TagName |-> name, Value |-> value]

\* What the EXIF decoder can yield for a file, by number.
ExifKinds ==
    << [decode |-> "missing", tags |-> <<>>],
       [decode |-> "corrupt", tags |-> <<>>],
       [decode |-> "ok", tags |-> <<Tag("Make", <<"NIKON">>)>>],
       [decode |-> "ok", tags |-> <<Tag("DateTimeOriginal", <<GoodTime>>)>>],
       [decode |-> "ok", tags |-> <<Tag("DateTimeOriginal", <<ZeroTime>>)>>],
       [decode |-> "ok", tags |-> <<Tag("DateTimeOriginal", <<ZeroTime, NUL>>)>>],
       [decode |-> "ok", tags |-> <<Tag("DateTimeOriginal", <<GoodTime, NUL>>)>>],
       [decode |-> "ok", tags |-> <<Tag("DateTimeOriginal", <<JunkTime>>)>>],
       [decode |-> "ok", tags |-> <<Tag("DateTimeOriginal", <<ZeroTime>>),
                                    Tag("Create Date", <<GoodTime>>)>>],
       [decode |-> "ok", tags |-> <<Tag("Create Date", <<GoodTime>>),
                                    Tag("DateTimeOriginal", <<ZeroTime>>)>>] >>

File(path, bytes, exif) == [path |-> path, bytes |-> bytes, exif |-> exif]

\* The files of the trees that Spec walks.
Files ==
    { File(PathA,    1, 4),     \* a JPEG with a capture time
      File(PathB,    1, 4),     \* the same bytes under another name
      File(PathBad,  1, 3),     \* a JPEG without a capture-time tag
      File(PathNEF,  2, 1),     \* PNG signature, .NEF, no metadata block
      File(PathTif,  3, 1),     \* a TIFF
      File(PathNef,  3, 4),     \* TIFF signature, .nef, with a capture time
      File(PathHEIC, 4, 2),     \* HEIC with a corrupt metadata block
      File(PathMeta, 1, 4),     \* skipped by name
      File(PathXML,  1, 4),     \* skipped by extension
      File(PathTxt,  5, 1) }    \* not recognized

\* The files that SpecFirst hands to the callback: every path with every
\* content.
AllFiles ==
    { File(p, b, e) : p \in Paths, b \in 1..Len(FileBytes), e \in 1..Len(ExifKinds) }

\* ---------------------------------------------------------------- state
VARIABLES
    entry,    \* which main is running
    pc,       \* "start", "walk", "done", "fatal", "initfail"
    run,      \* processes started so far
    visits,   \* files handled so far, over all runs
    visited,  \* paths the walk of this run has handled
    cache,    \* the store's items: key -> [Object, Expiration]
    base,     \* the items the store held when the walk of this run began
    file,     \* the store file on disk
    outDir,   \* the output directory: name -> [md5, whole]
    hits,     \* per fingerprint: recognized files handled in this run
    copies,   \* per fingerprint: outcomes of the CopyFile calls of this run
    last,     \* the file handled last and what the collaborators returned
    ops,      \* what the callback did with it, in order
    saved,    \* what db.Persist returned in this run ("" before it is called)
    loadErr,  \* what NewPersistentCache returned to main ("none" before a run)
    swept     \* the items the cache's janitor found at its last pass of this run

vars == <<entry, pc, run, visits, visited, cache, base, file, outDir,
          hits, copies, last, ops, saved, loadErr, swept>>

NoFile == [path |-> <<>>, bytes |-> 0, exif |-> 0, open |-> FALSE,
           isImg |-> FALSE, mime |-> "", key |-> <<>>, outFile |-> <<>>]

Init ==
    /\ entry \in Entries
    /\ pc = "start"
    /\ run = 0
    /\ visits = 0
    /\ visited = {}
    /\ cache = EmptyItems
    /\ base = EmptyItems
    /\ file = MissingFile
    /\ outDir = EmptyItems
    /\ hits = EmptyItems
    /\ copies = EmptyItems
    /\ last = NoFile
    /\ ops = <<>>
    /\ saved = ""
    /\ loadErr = "none"
    /\ swept = EmptyItems

\* main up to the walk: -clean removes the store file, NewPersistentCache
\* loads it; an error other than "not exist" ends the run.
Main(clean) ==
    /\ pc \in {"start", "done", "fatal", "initfail"}
    /\ run < MaxRuns
    /\ visits < MaxFiles
    /\ LET f  == IF clean THEN MissingFile ELSE file
           db == NewPersistentCache(f)
       IN  /\ file' = f
           /\ cache' = db.items
           /\ base' = db.items
           /\ loadErr' = db.err
           /\ pc' = IF db.err \notin {"", "IsNotExist"} THEN "initfail" ELSE "walk"
    /\ run' = run + 1
    /\ visited' = {}
    /\ hits' = EmptyItems
    /\ copies' = EmptyItems
    /\ last' = NoFile
    /\ ops' = <<>>
    /\ saved' = ""
    /\ swept' = EmptyItems
    /\ UNCHANGED <<entry, visits, outDir>>

\* What the walk callback does with one file.  in gives the outcomes of the
\* collaborators: open (IsImage can open and read), r (IsImage's result),
\* hash (CalculateMD5 succeeds), copy (CopyFile's outcome).  Result: the
\* items and directory afterwards, the operations done, whether the process
\* exited, the fingerprint looked up (<<>> when the callback returned or
\* the process exited before the record was set) and the output name.
\* md5 is the file's digest, got the answer of db.Get, o the miss path's
\* record and name.
Quiet(items, dir, o) ==
    [items |-> items, dir |-> dir, ops |-> o, fatal |-> FALSE,
     key |-> <<>>, copy |-> <<>>, outFile |-> <<>>]
\* A plausible slip: the counter is incremented on the local copy only.
DuplicateNotStored(items, dir, md5, fi) ==
    [items |-> items,
     dir |-> dir, ops |-> <<"open", "hash", "get">>,
     fatal |-> FALSE, key |-> md5, copy |-> <<>>, outFile |-> <<>>]
\* A plausible slip: the record stored on a hit is the callback's fresh
\* value carrying the new count, not the record that was found.
DuplicateShadowed(items, dir, md5, fi) ==
    [items |-> Set(items, md5,
                   [NewImageFileInfo(<<>>, "", md5)
                       EXCEPT !.Duplicates = IncrInt32(fi.Duplicates)],
                   NoExpiration),
     dir |-> dir, ops |-> <<"open", "hash", "get", "set">>,
     fatal |-> FALSE, key |-> md5, copy |-> <<>>, outFile |-> <<>>]
Duplicate(items, dir, md5, fi) ==
    [items |-> Set(items, md5,
                   [fi EXCEPT !.Duplicates = IncrInt32(fi.Duplicates)],
                   NoExpiration),
     dir |-> dir, ops |-> <<"open", "hash", "get", "set">>,
     fatal |-> FALSE, key |-> md5, copy |-> <<>>, outFile |-> <<>>]
\* A plausible slip: the record is stored and the copy-out left out.
FirstSeenNotCopied(items, dir, in, md5, o, x) ==
    IF o.fatal
    THEN [items |-> items, dir |-> dir,
          ops |-> <<"open", "hash", "get">> \o x,
          fatal |-> TRUE, key |-> <<>>, copy |-> <<>>, outFile |-> <<>>]
    ELSE [items |-> Set(items, md5, o.fi, NoExpiration),
          dir |-> dir,
          ops |-> <<"open", "hash", "get">> \o x \o <<"set">>,
          fatal |-> FALSE, key |-> md5, copy |-> <<>>,
          outFile |-> o.outFile]
FirstSeen(items, dir, in, md5, o, x) ==
    IF o.fatal
    THEN [items |-> items, dir |-> dir,
          ops |-> <<"open", "hash", "get">> \o x,
          fatal |-> TRUE, key |-> <<>>, copy |-> <<>>, outFile |-> <<>>]
    ELSE [items |-> Set(items, md5, o.fi, NoExpiration),
          dir |-> CopyFile(dir, md5, o.outFile, in.copy).dir,
          ops |-> <<"open", "hash", "get">> \o x \o <<"set", "copy">>,
          fatal |-> FALSE, key |-> md5, copy |-> <<in.copy>>,
          outFile |-> o.outFile]
Lookup(items, dir, in, md5, got, o) ==
    IF got.found
    THEN Duplicate(items, dir, md5, got.fi)
    ELSE FirstSeen(items, dir, in, md5, o, IF o.exif THEN <<"exif">> ELSE <<>>)
Hashed(ent, items, dir, f, in, md5) ==
    Lookup(items, dir, in, md5, Get(items, md5),
           Original(ent, f.path, in.r.mime, md5, ExifKinds[f.exif]))
Callback(ent, items, dir, f, in) ==
    IF IgnoreByName(f.path) THEN Quiet(items, dir, <<>>)
    ELSE IF IgnoreByExtension(f.path) THEN Quiet(items, dir, <<>>)
    ELSE IF ~in.open THEN Quiet(items, dir, <<"open">>)
    ELSE IF ~in.r.isImg THEN Quiet(items, dir, <<"open">>)
    ELSE IF ~in.hash THEN Quiet(items, dir, <<"open", "hash">>)
    ELSE Hashed(ent, items, dir, f, in, CalculateMD5(f.bytes, f.exif))

Count(h, k) == IF k \in DOMAIN h THEN h[k] ELSE 0
Outcomes(c, k) == IF k \in DOMAIN c THEN c[k] ELSE <<>>
Put(h, k, v) == [x \in DOMAIN h \cup {k} |-> IF x = k THEN v ELSE h[x]]

\* The state after the callback returned c for file f.
Returned(f, in, c) ==
    /\ cache' = c.items
    /\ outDir' = c.dir
    /\ ops' = c.ops
    /\ pc' = IF c.fatal THEN "fatal" ELSE "walk"
    /\ hits' = IF c.key = <<>> THEN hits
               ELSE Put(hits, c.key, Count(hits, c.key) + 1)
    /\ copies' = IF c.key = <<>> THEN copies
                 ELSE Put(copies, c.key, Outcomes(copies, c.key) \o c.copy)
    /\ last' = [path |-> f.path, bytes |-> f.bytes, exif |-> f.exif,
                open |-> in.open,
                isImg |-> in.open /\ in.r.isImg,
                mime |-> IF in.open THEN in.r.mime ELSE "",
                key |-> c.key, outFile |-> c.outFile]

\* The walk calls the callback on the next file of the tree.
Visit(f, in) ==
    /\ pc = "walk"
    /\ f.path \notin visited
    /\ Returned(f, in, Callback(entry, cache, outDir, f, in))
    /\ visits' = visits + 1
    /\ visited' = visited \cup {f.path}
    /\ UNCHANGED <<entry, run, base, file, saved, loadErr, swept>>

\* The walk has returned (the tree is exhausted, or the callback handed
\* back the walk's own error): db.Persist, then the report.
Save(outcome) ==
    /\ pc = "walk"
    /\ file' = Persist(cache, file, outcome)
    /\ saved' = outcome
    /\ pc' = "done"
    /\ UNCHANGED <<entry, run, visits, visited, cache, base, outDir,
                   hits, copies, last, ops, loadErr, swept>>

\* The outcomes of the collaborators that the callback can meet on file f
\* with the store holding items; an outcome the callback does not come to
\* ask for is left at its default.
DefaultInput ==
    [ open |-> TRUE, r |-> [isImg |-> FALSE, mime |-> ""], hash |-> TRUE,
      copy |-> "ok" ]
OnImage(items, f, r) ==
    {[DefaultInput EXCEPT !.r = r, !.hash = FALSE]}
    \cup (IF CalculateMD5(f.bytes, f.exif) \in DOMAIN items
          THEN {[DefaultInput EXCEPT !.r = r]}
          ELSE { [DefaultInput EXCEPT !.r = r, !.copy = c] : c \in CopyOutcomes })
OnOpen(items, f, r) ==
    IF r.isImg THEN OnImage(items, f, r) ELSE {[DefaultInput EXCEPT !.r = r]}
InputsOf(items, f) ==
    IF IgnoreByName(f.path) \/ IgnoreByExtension(f.path)
    THEN {DefaultInput}
    ELSE {[DefaultInput EXCEPT !.open = FALSE]}
         \cup UNION { OnOpen(items, f, r) : r \in IsImage(FileBytes[f.bytes], f.path) }

\* Between two files of the walk any time may pass and the janitor
\* goroutine (started by cache.New, one pass every 60 minutes) may run.
Sweep ==
    /\ pc = "walk"
    /\ swept' = cache
    /\ cache' = DeleteExpired(cache)
    /\ UNCHANGED <<entry, pc, run, visits, visited, base, file, outDir,
                   hits, copies, last, ops, saved, loadErr>>

\* The walk of Spec: the next file is any file of Files not yet visited.
Walk ==
    /\ visits < MaxFiles
    /\ \E f \in Files : \E in \in InputsOf(cache, f) : Visit(f, in)

Next ==
    \/ \E clean \in BOOLEAN : Main(clean)
    \/ Walk
    \/ \E outcome \in {"ok", "create", "write"} : Save(outcome)

Spec == Init /\ [][Next]_vars

\* The runs of Spec with the janitor's passes in between.
NextSweep ==
    \/ Next
    \/ Sweep

SpecSweep == Init /\ [][NextSweep]_vars

\* One file of any name and content through the callback of a first run.
WalkFirst ==
    /\ visits = 0
    /\ \E f \in AllFiles : \E in \in InputsOf(cache, f) : Visit(f, in)

NextFirst ==
    \/ Main(FALSE)
    \/ WalkFirst

SpecFirst == Init /\ [][NextFirst]_vars

\* ------------------------------------------------------------ properties
\* C1: in a run, when N >= 1 recognized files with fingerprint F have been
\* handled and the store did not hold F at the start, the store holds one
\* record under F (its own fingerprint F) with Duplicates = N - 1; for F
\* held at the start each of the N files added one; a record of a
\* fingerprint no file of the run carried is as it was loaded.
C1_DuplicatesCountRepeats ==
    /\ \A k \in DOMAIN hits :
          /\ k \in DOMAIN cache
          /\ Get(cache, k).fi.MD5 = k
          /\ Get(cache, k).fi.Duplicates =
                IF k \in DOMAIN base
                THEN Get(base, k).fi.Duplicates + hits[k]
                ELSE hits[k] - 1
    /\ \A k \in DOMAIN cache \ DOMAIN hits :
          k \in DOMAIN base /\ cache[k] = base[k]

\* Two files with the same new fingerprint were handled: the count is 1.
C1_Witness ==
    \E k \in DOMAIN hits :
        /\ k \notin DOMAIN base
        /\ hits[k] = 2
        /\ Get(cache, k).fi.Duplicates = 1

\* C2: while the walk of a run goes on (duplicate hits, other files,
\* persisting), a record in the store stays in the store with the FileName
\* it had, and no field of it other than Duplicates changes.
C2_FileNameAssignedOnce ==
    [][pc = "walk" =>
          \A k \in DOMAIN cache :
              /\ k \in DOMAIN cache'
              /\ Get(cache', k).fi.FileName = Get(cache, k).fi.FileName
              /\ [Get(cache', k).fi EXCEPT !.Duplicates = 0]
                    = [Get(cache, k).fi EXCEPT !.Duplicates = 0]]_vars

\* A named record has been through a duplicate hit.
C2_Witness ==
    \E k \in DOMAIN hits :
        /\ hits[k] >= 2
        /\ Get(cache, k).fi.Duplicates >= 1
        /\ Get(cache, k).fi.FileName # <<>>

C4_CopyPrecedesStore ==
    \A i, j \in 1..Len(ops) :
        (ops[i] \in {"exif", "copy"} /\ ops[j] = "set") => i < j

\* C5 as stated: a first-seen file of a type with embedded timestamps whose
\* capture time cannot be read is stored with HasExif false and the name
\* token_fingerprint_basename, and is copied out under that name.
C5_FallbackNaming ==
    (/\ \E i \in 1..Len(ops) : ops[i] = "exif"
     /\ GetJpegCreatedAt(NewImageFileInfo(<<>>, "", <<>>), ExifKinds[last.exif]).err)
        => /\ last.key \in DOMAIN cache
           /\ ~Get(cache, last.key).fi.HasExif
           /\ Get(cache, last.key).fi.FileName
                 = <<FallbackToken, last.key, Base(last.path)>>
           /\ last.outFile = <<FallbackToken, last.key, Base(last.path)>>

\* C6 as stated: no file makes the process exit; after the callback the
\* walk goes on to the next file and the store is persisted at the end.
C6_NoFileAbortsRun == pc # "fatal"

\* C7: when the walk hands the callback a file whose base name begins with
\* "._" or whose extension folds to a member of the skip set, the callback
\* does nothing: the file is not opened, hashed or looked up, and the store,
\* the output directory and the counts are as before.
C7_FilteredBeforeIO ==
    [][(visits' = visits + 1 /\ last'.path \in FilteredPaths)
          => /\ ops' = <<>>
             /\ cache' = cache
             /\ outDir' = outDir
             /\ hits' = hits
             /\ copies' = copies]_vars

\* x.XML was handed to the callback with a record already in the store.
C7_Witness ==
    /\ last.path = PathXML
    /\ ops = <<>>
    /\ DOMAIN cache # {}

\* C8: IsImage on a file that begins with the PNG signature answers
\* image/nef when the extension is .NEF in any letter case, and image/png
\* otherwise.
C8_PngNefTiebreak ==
    (/\ ops # <<>>
     /\ last.open
     /\ HasPrefix(FileBytes[last.bytes], <<137,80,78,71,13,10,26,10>>))
        => /\ last.isImg
           /\ last.mime = IF EqualFold(Ext(last.path), dotNEF)
                          THEN "image/nef"
                          ELSE "image/png"

\* m.NeF with the PNG signature was classified.
C8_Witness ==
    /\ last.path = PathNeF
    /\ last.bytes = 2
    /\ last.mime = "image/nef"

\* C9 as stated: for contents that do not begin with the PNG signature the
\* type does not depend on the file's name: IsImage answers the same under
\* every path, and two records made from the same leading bytes (the second
\* component of the digest's name) hold the same MimeType.
C9_TypeIndependentOfExtension ==
    /\ (last.bytes \notin {0, 2})
          => \A p \in Paths :
                IsImage(FileBytes[last.bytes], p)
                   = IsImage(FileBytes[last.bytes], last.path)
    /\ \A k1, k2 \in DOMAIN cache :
          (k1[2] = k2[2] /\ k1[2] # 2)
             => Get(cache, k1).fi.MimeType = Get(cache, k2).fi.MimeType

C11_LoadTolerantAndStrict ==
    (pc \in {"walk", "fatal", "initfail"}) =>
        /\ (file.kind = "missing")
              => (loadErr = "" /\ pc # "initfail" /\ base = EmptyItems)
        /\ (file.kind = "corrupt")
              => (loadErr # "" /\ pc = "initfail")

C13_NeverEvicted ==
    /\ \A k \in DOMAIN cache : cache[k].Expiration = 0
    /\ \A k \in DOMAIN base \cup DOMAIN swept \cup DOMAIN hits :
          /\ Get(cache, k).found
          /\ Get(cache, k).fi.MD5 = k

\* A record that a janitor pass found was hit by a later file.
C13_Witness ==
    \E k \in DOMAIN swept :
        /\ Get(cache, k).found
        /\ Get(cache, k).fi.Duplicates > Get(swept, k).fi.Duplicates

\* C14 as stated: when a run has ended, every fingerprint that run saw
\* first and that has a record in the store had its copy-out succeed
\* (CopyFile returned no error).
C14_RecordBackedByCopy ==
    (pc = "done") =>
        \A k \in DOMAIN cache \ DOMAIN base : Outcomes(copies, k) = <<"ok">>

\* C15 as stated: any other call of IsImage on the file the callback just
\* classified returns the MIME type that call returned.
C15_ClassificationDeterministic ==
    (ops # <<>> /\ last.open)
        => \A r \in IsImage(FileBytes[last.bytes], last.path) :
              r.isImg = last.isImg /\ r.mime = last.mime

====
